---- MODULE Spec2Model ----
(***************************************************************************)
(* Feed aggregation of my_new_gear: the followed-users source, the         *)
(* followed-tags source and the merger (services/feed.service.ts), over    *)
(* the relational tables they read.  One feed request is in flight at a    *)
(* time; it advances one database query (one await) per step.              *)
(***************************************************************************)
EXTENDS Integers, Sequences, FiniteSets, Bags, TLC

(***************************************************************************)
(* Bounds of the model.                                                    *)
(***************************************************************************)
MaxPosts == 2
MaxLimit == 2
MaxOffset == 1
\* Notification rows a run may insert.
MaxNotifications == 2
\* Calls of the like, follow, comment and item services in flight at a time.
MaxCalls == 2

(***************************************************************************)
(* Constants of the program.                                               *)
(***************************************************************************)
\* getCombinedFeed asks each source for this many entries ...
MergeWindow == 100
\* ... starting at this offset.
MergeOffset == 0
\* postTagRepository.findPostIdsByTagIds: default of its limit parameter ...
PostIdsDefaultLimit == 50
\* ... and of its offset parameter.
PostIdsDefaultOffset == 0

\* Defaults of the limit and offset parameters of the feed functions.
DefaultLimit == 20
DefaultOffset == 0

\* SQL NULL in a bigint column (ids are positive) and in a text column.
Null == 0
NullUrl == "null"
\* posts.created_at is nullable; ORDER BY created_at DESC lists NULL before
\* every timestamp, as a time later than all of them would be.
NullCreatedAt == 1000

\* The cast: user 1 asks for feeds, users 2 and 3 write posts.
Users == {1, 2, 3}
Viewers == {1}
Authors == {2, 3}
Tags == {1}
Times == {1, 2}
PostIds == 1..MaxPosts
\* feedQuerySchema: limit is an integer in 1..100, offset an integer >= 0.
Limits == (1..MaxLimit) \cup {MergeWindow}
Offsets == 0..MaxOffset

VARIABLES
    posts,       \* table posts: rows [id, authorId, itemId, createdAt]
    items,       \* table items: rows [id, userId, defaultPhotoId, createdAt]
    photos,      \* table photos: rows [id, postId, itemId, url]
    follows,     \* table follows: a bag of rows <<followerId, followeeId>>
    tagFollows,  \* table tag_follows: pairs <<followerId, tagId>>
    postTags,    \* table post_tags: pairs <<postId, tagId>>
    likes,       \* table likes: a bag of rows <<userId, postId>>
    comments,    \* table comments: rows [id, postId, authorId]
    notifications, \* table notifications, in insertion order
    req,         \* the feed request in flight: [op, userId, limit, offset]
    call,        \* the source call in progress inside it, with its locals
    usersFeed,   \* getCombinedFeed's local usersFeed
    queries,     \* data-layer queries the request has issued, by kind
    resp,        \* the response to the request, once it has returned
    hist,        \* responses to the requests just before, on the same data
    ops          \* the calls of the other services, in flight or returned

dbvars == <<posts, items, photos, follows, tagFollows, postTags, likes, comments,
            notifications>>
feedvars == <<req, call, usersFeed, queries, resp, hist>>
vars == <<posts, items, photos, follows, tagFollows, postTags, likes, comments,
          notifications, req, call, usersFeed, queries, resp, hist, ops>>

(***************************************************************************)
(* Helpers on sets and sequences.                                          *)
(***************************************************************************)
Min(a, b) == IF a <= b THEN a ELSE b
Max(a, b) == IF a >= b THEN a ELSE b
Range(s) == {s[i] : i \in DOMAIN s}

\* All enumerations of a finite set as a sequence.
RECURSIVE Perms(_)
Perms(S) ==
    IF S = {} THEN {<<>>}
    ELSE UNION {{<<x>> \o s : s \in Perms(S \ {x})} : x \in S}

\* The subsets of S with exactly k elements.
RECURSIVE KSubsets(_, _)
KSubsets(S, k) ==
    IF k = 0 THEN {{}}
    ELSE IF k = 1 THEN {{x} : x \in S}
    ELSE IF Cardinality(S) < k THEN {}
    ELSE LET x == CHOOSE y \in S : TRUE
         IN  {T \cup {x} : T \in KSubsets(S \ {x}, k - 1)} \cup KSubsets(S \ {x}, k)

\* Array.prototype.slice(from, to) for 0 <= from <= to.
Slice(s, from, to) == SubSeq(s, from + 1, Min(to, Len(s)))

(***************************************************************************)
(* SQL result orders.  ORDER BY created_at DESC fixes the order of rows    *)
(* with different timestamps only; rows with equal timestamps come in any  *)
(* order.  LIMIT/OFFSET without ORDER BY returns any rows of the result.   *)
(***************************************************************************)
MinCreatedAt(S) == CHOOSE t \in {p.createdAt : p \in S} : \A q \in S : t <= q.createdAt

\* Every sequence of all rows of S that is ordered by createdAt descending:
\* the rows of the oldest timestamp, in any order, come last.
RECURSIVE DescOrders(_)
DescOrders(S) ==
    IF S = {} THEN {<<>>}
    ELSE LET oldest == {p \in S : p.createdAt = MinCreatedAt(S)}
         IN  {r \o g : g \in Perms(oldest), r \in DescOrders(S \ oldest)}

\* .orderBy(desc(posts.createdAt)).limit(limit).offset(offset) over the rows S.
OrderByCreatedAtDesc(S, limit, offset) ==
    {Slice(o, offset, offset + limit) : o \in DescOrders(S)}

\* .limit(limit).offset(offset) over the rows S, no ORDER BY: the row sets
\* the query can return.
LimitUnordered(S, limit, offset) ==
    LET n == Cardinality(S)
        k == Min(limit, Max(0, n - offset))
    IN  {S \ X : X \in KSubsets(S, n - k)}

(***************************************************************************)
(* Repositories and queries.                                               *)
(***************************************************************************)
\* followRepository.findFollowingIds(userId)
findFollowingIds(userId) == {f[2] : f \in {g \in BagToSet(follows) : g[1] = userId}}

\* tagFollowRepository.findFollowingTagIds(userId)
findFollowingTagIds(userId) == {f[2] : f \in {g \in tagFollows : g[1] = userId}}

\* (SELECT COUNT(*) FROM likes WHERE likes.post_id = posts.id)
likesCountOf(postId) ==
    LET rows == {l \in BagToSet(likes) : l[2] = postId}
    IN  IF rows = {} THEN 0 ELSE BagCardinality([l \in rows |-> likes[l]])

\* A post row with the columns and counts the feed selects.
PostForFeed(p) ==
    [id |-> p.id, createdAt |-> p.createdAt, authorId |-> p.authorId,
     itemId |-> p.itemId, likesCount |-> likesCountOf(p.id)]

\* The post-id query without its .offset(offset).
UsersPostIdsQueryNoOffset(followingUserIds, limit, offset) ==
    {[i \in DOMAIN s |-> s[i].id] :
        s \in OrderByCreatedAtDesc({p \in posts : p.authorId \in followingUserIds},
                                   limit, 0)}

\* getFollowingUsersFeed: the post-id query, with limit and offset in SQL.
UsersPostIdsQuery(followingUserIds, limit, offset) ==
    {[i \in DOMAIN s |-> s[i].id] :
        s \in OrderByCreatedAtDesc({p \in posts : p.authorId \in followingUserIds},
                                   limit, offset)}

\* postRepository.findPostsForFeedByIds(postIds): the rows of the posts that
\* still exist, in no particular order.
findPostsForFeedByIds(postIds) ==
    {PostForFeed(p) : p \in {q \in posts : q.id \in Range(postIds)}}

\* postTagRepository.findTagsForMultiplePosts(postIds), with the caller's
\* "?? []" for a post that has no tag.
findTagsForMultiplePosts(postIds) ==
    [id \in Range(postIds) |-> {pt[2] : pt \in {x \in postTags : x[1] = id}}]

\* postTagRepository.findPostIdsByTagIds(tagIds, limit, offset): limit and
\* offset cut the post_tags rows, then the post ids are de-duplicated.
findPostIdsByTagIds(tagIds, limit, offset) ==
    IF tagIds = {} THEN {{}}
    ELSE {{pt[1] : pt \in R} :
            R \in LimitUnordered({pt \in postTags : pt[2] \in tagIds}, limit, offset)}

\* getFollowingTagsFeed: the posts query, joined, ordered and paginated in SQL.
TagsPostsQuery(postIds, limit, offset) ==
    {[i \in DOMAIN s |-> PostForFeed(s[i])] :
        s \in OrderByCreatedAtDesc({p \in posts : p.id \in postIds}, limit, offset)}

(***************************************************************************)
(* Shaping of the entries.                                                 *)
(***************************************************************************)
\* itemRepository.findItemById(itemId): the set of the rows found.
findItemById(itemId) == {it \in items : it.id = itemId}

\* photoRepository.findPhotoById(id): the set of the rows found.
findPhotoById(id) == {ph \in photos : ph.id = id}

\* getItemImageUrl reads the photo only for an item with a default photo.
ReadsPhoto(itemId) == \E it \in findItemById(itemId) : it.defaultPhotoId # Null

\* getItemImageUrl with the photo looked up by the item's own id.
getItemImageUrlByItemId(itemId) ==
    LET photo == findPhotoById(itemId)
    IN  IF photo = {} THEN NullUrl ELSE (CHOOSE ph \in photo : TRUE).url

\* getItemImageUrl(itemId): null without the item, without its default photo
\* id, or without the photo row.
getItemImageUrl(itemId) ==
    LET item == findItemById(itemId)
    IN  IF item = {} \/ ~ReadsPhoto(itemId) THEN NullUrl
        ELSE LET photo == findPhotoById((CHOOSE it \in item : TRUE).defaultPhotoId)
             IN  IF photo = {} THEN NullUrl ELSE (CHOOSE ph \in photo : TRUE).url

\* The object built for one post inside Promise.all(...map(...)).
FeedEntry(row, tagsMap, imageUrl) ==
    [id |-> row.id, createdAt |-> row.createdAt, authorId |-> row.authorId,
     itemId |-> row.itemId, imageUrl |-> imageUrl,
     likesCount |-> row.likesCount, tags |-> tagsMap[row.id]]

\* The orders in which the tasks of one Promise.all can complete; for a page
\* of more than two posts, in order and in reverse order only.
CompletionOrders(n) ==
    IF n <= 2 THEN Perms(1..n)
    ELSE {[i \in 1..n |-> i], [i \in 1..n |-> n + 1 - i]}

\* Promise.all(tasks): the value of task i at index i, whenever it completed.
PromiseAll(values, completion) ==
    [i \in DOMAIN values |->
        values[completion[CHOOSE k \in DOMAIN completion : completion[k] = i]]]

\* z.date() refuses a null createdAt, z.number().int().min(0) a negative count.
ValidEntry(e) == e.createdAt # NullCreatedAt /\ e.likesCount >= 0

\* FeedPostsListSchema.parse(list) returns when every entry is valid.
ParseOk(list) == \A i \in DOMAIN list : ValidEntry(list[i])

\* No sort: the entries as Promise.all delivered them.
SortByPostIdOrderNone(feedResults, postIds) == feedResults

\* feedResults.sort by postIdOrder: the entries in the order their ids have
\* in postIds.
SortByPostIdOrder(feedResults, postIds) ==
    LET present == SelectSeq(postIds, LAMBDA id : \E k \in DOMAIN feedResults : feedResults[k].id = id)
    IN  [i \in DOMAIN present |->
            feedResults[CHOOSE k \in DOMAIN feedResults : feedResults[k].id = present[i]]]

(***************************************************************************)
(* getCombinedFeed: merge, de-duplicate, sort, paginate.                   *)
(***************************************************************************)
\* No de-duplication at all.
UniqueByIdKeepAll(list) == list

\* Array.from(new Map(list.map(post => [post.id, post])).values()): a key
\* keeps the place of its first entry and the value of its last.
UniqueById(list) ==
    LET isFirst(i) == \A j \in 1..(i - 1) : list[j].id # list[i].id
        lastOf(i) == CHOOSE j \in DOMAIN list :
                        /\ list[j].id = list[i].id
                        /\ \A k \in DOMAIN list : list[k].id = list[i].id => k <= j
        firsts == SelectSeq([i \in DOMAIN list |-> i], isFirst)
    IN  [n \in DOMAIN firsts |-> list[lastOf(firsts[n])]]

\* The list left in the order of the concatenation.
SortByCreatedAtDescNone(list) == list

\* uniquePosts.sort((a, b) => b.createdAt - a.createdAt): Array.prototype.sort
\* is stable, so entries with equal createdAt keep their order.
RECURSIVE SortByCreatedAtDesc(_)
SortByCreatedAtDesc(list) ==
    IF list = <<>> THEN <<>>
    ELSE LET top == CHOOSE i \in DOMAIN list :
                      /\ \A j \in DOMAIN list : list[j].createdAt <= list[i].createdAt
                      /\ \A j \in 1..(i - 1) : list[j].createdAt < list[i].createdAt
             rest == [k \in 1..(Len(list) - 1) |-> IF k < top THEN list[k] ELSE list[k + 1]]
         IN  <<list[top]>> \o SortByCreatedAtDesc(rest)

\* slice(offset, limit): the end index taken for a length.
PaginateToLimit(sortedPosts, limit, offset) == Slice(sortedPosts, offset, limit)

\* sortedPosts.slice(offset, offset + limit)
Paginate(sortedPosts, limit, offset) == Slice(sortedPosts, offset, offset + limit)

\* The two lists one after the other, as the sources returned them.
MergeFeedsConcat(uFeed, tFeed) == uFeed \o tFeed

\* The list getCombinedFeed sorts: both sources, de-duplicated.
MergeFeeds(uFeed, tFeed) == SortByCreatedAtDesc(UniqueById(uFeed \o tFeed))

(***************************************************************************)
(* Calls of the other services.  Up to MaxCalls of them run at a time,     *)
(* each one await per step; a call that has returned shows its status.     *)
(***************************************************************************)
Calls == 1..MaxCalls

\* No call: op "none".  A running call has status 0; its locals are the
\* arguments a and b, the rows it read, whether it called the repository's
\* insert or delete, whether a notification was stored, and what it returns.
NoOp ==
    [op |-> "none", pc |-> "done", a |-> 0, b |-> 0, status |-> 0, found |-> {},
     inserted |-> FALSE, deleted |-> FALSE, notified |-> FALSE, count |-> 0,
     list |-> <<>>]

NoOps == [c \in Calls |-> NoOp]

\* Call c starts as op(a, b) at its first await.
StartOp(c, op, a, b, pc) ==
    /\ ops[c].pc = "done"
    /\ ops' = [ops EXCEPT ![c] = [NoOp EXCEPT !.op = op, !.pc = pc, !.a = a, !.b = b]]
    /\ UNCHANGED <<dbvars, feedvars>>

\* Call c returns or throws with an HTTP status.
Done(o, status) == [o EXCEPT !.pc = "done", !.status = status]

(***************************************************************************)
(* The request in flight.                                                  *)
(***************************************************************************)
Idle == [op |-> "idle", userId |-> 0, limit |-> 0, offset |-> 0]

NoCall ==
    [fn |-> "none", pc |-> "idle", limit |-> 0, offset |-> 0,
     followingIds |-> {}, postIds |-> <<>>, postIdsWithTags |-> {},
     postsForFeed |-> <<>>, tagsMap |-> <<>>, completion |-> <<>>,
     feedResults |-> <<>>]

\* A call of getFollowingUsersFeed or getFollowingTagsFeed, at its first await.
NewCall(fn, limit, offset) ==
    [NoCall EXCEPT !.fn = fn, !.limit = limit, !.offset = offset,
                   !.pc = IF fn = "users" THEN "U_follows" ELSE "T_follows"]

\* The data-layer calls of the feed service.
QueryKinds ==
    {"findFollowingIds", "postIds", "findPostsForFeedByIds", "findTagsForMultiplePosts",
     "findFollowingTagIds", "findPostIdsByTagIds", "postsForFeed",
     "findItemById", "findPhotoById"}

NoQueries == [k \in QueryKinds |-> 0]

\* The queries issued so far and n more of one kind.
Issued(kind, n) == [queries EXCEPT ![kind] = @ + n]

\* The queries issued so far and those of getItemImageUrl for each row.
IssuedForImages(rows) ==
    [queries EXCEPT
        !["findItemById"] = @ + Len(rows),
        !["findPhotoById"] = @ + Cardinality({i \in DOMAIN rows : ReadsPhoto(rows[i].itemId)})]

NoResp ==
    [op |-> "none", userId |-> 0, limit |-> 0, offset |-> 0, status |-> 0,
     posts |-> <<>>, usersFeed |-> <<>>, tagsFeed |-> <<>>, sortedPosts |-> <<>>,
     error |-> "none", last |-> NoCall]

\* What a client keeps of a response.
Seen(r) ==
    [op |-> r.op, userId |-> r.userId, limit |-> r.limit, offset |-> r.offset,
     status |-> r.status, posts |-> r.posts]

\* The caller's own limit and offset handed on to the sources.
SourceArgsOfCaller(limit, offset) == [limit |-> limit, offset |-> offset]

\* The arguments getCombinedFeed passes to each source.
SourceArgs(limit, offset) == [limit |-> MergeWindow, offset |-> MergeOffset]

\* The controller calls a feed function for an authenticated user.
Begin(op, userId, limit, offset, first, seen) ==
    /\ req' = [op |-> op, userId |-> userId, limit |-> limit, offset |-> offset]
    /\ call' = first
    /\ usersFeed' = <<>>
    /\ queries' = NoQueries
    /\ resp' = NoResp
    /\ hist' = seen
    /\ UNCHANGED <<dbvars, ops>>

\* The request ends with a list.
Respond(page, uFeed, tFeed, sorted, issued) ==
    /\ resp' = [op |-> req.op, userId |-> req.userId, limit |-> req.limit,
                offset |-> req.offset, status |-> 200, posts |-> page,
                usersFeed |-> uFeed, tagsFeed |-> tFeed, sortedPosts |-> sorted,
                error |-> "none", last |-> call]
    /\ req' = Idle
    /\ call' = NoCall
    /\ usersFeed' = <<>>
    /\ queries' = issued
    /\ UNCHANGED <<dbvars, hist, ops>>

\* A catch that answers with what had been fetched before the error.
CaughtWithPartial(cause, partial) == [status |-> 200, posts |-> partial]

\* What the catch blocks make of an error thrown below them: the sources
\* and getCombinedFeed rethrow an HTTPException and turn any other error
\* into HTTPException(500), and so does the route.
Caught(cause, partial) == [status |-> 500, posts |-> <<>>]

\* The request ends with an error and the users source's list stays behind.
FailKeepingUsersFeed(cause, issued) ==
    LET out == Caught(cause, usersFeed)
    IN  /\ resp' = [op |-> req.op, userId |-> req.userId, limit |-> req.limit,
                    offset |-> req.offset, status |-> out.status, posts |-> out.posts,
                    usersFeed |-> usersFeed, tagsFeed |-> <<>>, sortedPosts |-> <<>>,
                    error |-> cause, last |-> call]
        /\ req' = Idle
        /\ call' = NoCall
        /\ queries' = issued
        /\ UNCHANGED <<dbvars, usersFeed, hist, ops>>

\* The request ends with an error.
Fail(cause, issued) ==
    LET out == Caught(cause, usersFeed)
    IN  /\ resp' = [op |-> req.op, userId |-> req.userId, limit |-> req.limit,
                    offset |-> req.offset, status |-> out.status, posts |-> out.posts,
                    usersFeed |-> usersFeed, tagsFeed |-> <<>>, sortedPosts |-> <<>>,
                    error |-> cause, last |-> call]
        /\ req' = Idle
        /\ call' = NoCall
        /\ usersFeed' = <<>>
        /\ queries' = issued
        /\ UNCHANGED <<dbvars, hist, ops>>

\* A source returns `list`: to the controller, or to getCombinedFeed, which
\* after the users source calls the tags source and after the tags source
\* merges, sorts, paginates, validates and returns.
Return(list, issued) ==
    IF req.op = "combined" /\ call.fn = "users"
    THEN /\ usersFeed' = list
         /\ call' = LET a == SourceArgs(req.limit, req.offset)
                    IN  NewCall("tags", a.limit, a.offset)
         /\ queries' = issued
         /\ UNCHANGED <<dbvars, req, resp, hist, ops>>
    ELSE IF req.op = "combined"
    THEN LET sortedPosts == MergeFeeds(usersFeed, list)
             paginatedPosts == Paginate(sortedPosts, req.limit, req.offset)
         IN  IF ParseOk(paginatedPosts)
             THEN Respond(paginatedPosts, usersFeed, list, sortedPosts, issued)
             ELSE Fail("parse", issued)
    ELSE Respond(list, <<>>, <<>>, <<>>, issued)

\* The source call moves to its next await with some locals set.
Continue(next, issued) ==
    /\ call' = next
    /\ queries' = issued
    /\ UNCHANGED <<dbvars, req, usersFeed, resp, hist, ops>>

\* A source validates its list and returns it, or throws.
ParseAndReturn(list) ==
    IF ParseOk(list) THEN Return(list, queries) ELSE Fail("parse", queries)

(***************************************************************************)
(* The three exported functions, as the controller calls them.             *)
(***************************************************************************)
GetFollowingUsersFeed ==
    /\ req.op = "idle"
    /\ \E userId \in Viewers, limit \in Limits, offset \in Offsets :
        Begin("users", userId, limit, offset, NewCall("users", limit, offset), <<>>)

GetFollowingTagsFeed ==
    /\ req.op = "idle"
    /\ \E userId \in Viewers, limit \in Limits, offset \in Offsets :
        Begin("tags", userId, limit, offset, NewCall("tags", limit, offset), <<>>)

\* getCombinedFeed starts the users source with its own limit and offset.
CombinedFirstOfCaller(limit, offset) == NewCall("users", limit, offset)

\* getCombinedFeed starts with its call of getFollowingUsersFeed.
CombinedFirst(limit, offset) ==
    LET a == SourceArgs(limit, offset) IN NewCall("users", a.limit, a.offset)

GetCombinedFeed ==
    /\ req.op = "idle"
    /\ \E userId \in Viewers, limit \in Limits, offset \in Offsets :
        Begin("combined", userId, limit, offset, CombinedFirst(limit, offset), <<>>)

(***************************************************************************)
(* getFollowingUsersFeed, one await per step.                              *)
(***************************************************************************)
\* The first await without the early return for an empty list.
UsersFollowsNoShortCircuit ==
    /\ call.pc = "U_follows"
    /\ Continue([call EXCEPT !.followingIds = findFollowingIds(req.userId), !.pc = "U_ids"],
                Issued("findFollowingIds", 1))

\* The first await with an error thrown for an empty list.
UsersFollowsNotFound ==
    /\ call.pc = "U_follows"
    /\ LET followingUserIds == findFollowingIds(req.userId)
       IN  IF followingUserIds = {} THEN Fail("notfound", Issued("findFollowingIds", 1))
           ELSE Continue([call EXCEPT !.followingIds = followingUserIds, !.pc = "U_ids"],
                         Issued("findFollowingIds", 1))

UsersFollows ==
    /\ call.pc = "U_follows"
    /\ LET followingUserIds == findFollowingIds(req.userId)
       IN  IF followingUserIds = {} THEN Return(<<>>, Issued("findFollowingIds", 1))
           ELSE Continue([call EXCEPT !.followingIds = followingUserIds, !.pc = "U_ids"],
                         Issued("findFollowingIds", 1))

UsersPostIds ==
    /\ call.pc = "U_ids"
    /\ \E postIds \in UsersPostIdsQuery(call.followingIds, call.limit, call.offset) :
          IF postIds = <<>> THEN Return(<<>>, Issued("postIds", 1))
          ELSE Continue([call EXCEPT !.postIds = postIds, !.pc = "U_posts"],
                        Issued("postIds", 1))

\* The rows are read and a candidate id without a row is an error.
UsersPostsAllOrNothing ==
    /\ call.pc = "U_posts"
    /\ \E postsForFeedData \in Perms(findPostsForFeedByIds(call.postIds)) :
          IF Len(postsForFeedData) < Len(call.postIds)
          THEN Fail("notfound", Issued("findPostsForFeedByIds", 1))
          ELSE Continue([call EXCEPT !.postsForFeed = postsForFeedData, !.pc = "U_tags"],
                        Issued("findPostsForFeedByIds", 1))

UsersPosts ==
    /\ call.pc = "U_posts"
    /\ \E postsForFeedData \in Perms(findPostsForFeedByIds(call.postIds)) :
          Continue([call EXCEPT !.postsForFeed = postsForFeedData, !.pc = "U_tags"],
                   Issued("findPostsForFeedByIds", 1))

UsersTags ==
    /\ call.pc = "U_tags"
    /\ Continue([call EXCEPT !.tagsMap = findTagsForMultiplePosts(call.postIds),
                             !.pc = "U_enrich"],
                Issued("findTagsForMultiplePosts", 1))

\* await Promise.all(postsForFeed.map(...)): one getItemImageUrl per row.
UsersEnrich ==
    /\ call.pc = "U_enrich"
    /\ \E completion \in CompletionOrders(Len(call.postsForFeed)) :
          LET values == [i \in DOMAIN call.postsForFeed |->
                            FeedEntry(call.postsForFeed[i], call.tagsMap,
                                      getItemImageUrl(call.postsForFeed[i].itemId))]
          IN  Continue([call EXCEPT !.feedResults = PromiseAll(values, completion),
                                    !.completion = completion,
                                    !.pc = "U_finish"],
                       IssuedForImages(call.postsForFeed))

UsersFinish ==
    /\ call.pc = "U_finish"
    /\ ParseAndReturn(SortByPostIdOrder(call.feedResults, call.postIds))

(***************************************************************************)
(* getFollowingTagsFeed, one await per step.                               *)
(***************************************************************************)
\* The first await without the early return for an empty list.
TagsFollowsNoShortCircuit ==
    /\ call.pc = "T_follows"
    /\ Continue([call EXCEPT !.followingIds = findFollowingTagIds(req.userId), !.pc = "T_ids"],
                Issued("findFollowingTagIds", 1))

TagsFollows ==
    /\ call.pc = "T_follows"
    /\ LET followingTagIds == findFollowingTagIds(req.userId)
       IN  IF followingTagIds = {} THEN Return(<<>>, Issued("findFollowingTagIds", 1))
           ELSE Continue([call EXCEPT !.followingIds = followingTagIds, !.pc = "T_ids"],
                         Issued("findFollowingTagIds", 1))

TagsPostIds ==
    /\ call.pc = "T_ids"
    /\ \E postIdsWithTags \in findPostIdsByTagIds(call.followingIds, PostIdsDefaultLimit, PostIdsDefaultOffset) :
          IF postIdsWithTags = {} THEN Return(<<>>, Issued("findPostIdsByTagIds", 1))
          ELSE Continue([call EXCEPT !.postIdsWithTags = postIdsWithTags, !.pc = "T_posts"],
                        Issued("findPostIdsByTagIds", 1))

TagsPosts ==
    /\ call.pc = "T_posts"
    /\ \E postsForFeed \in TagsPostsQuery(call.postIdsWithTags, call.limit, call.offset) :
          IF postsForFeed = <<>> THEN Return(<<>>, Issued("postsForFeed", 1))
          ELSE Continue([call EXCEPT !.postsForFeed = postsForFeed,
                                     !.postIds = [i \in DOMAIN postsForFeed |-> postsForFeed[i].id],
                                     !.pc = "T_tags"],
                        Issued("postsForFeed", 1))

TagsTags ==
    /\ call.pc = "T_tags"
    /\ Continue([call EXCEPT !.tagsMap = findTagsForMultiplePosts(call.postIds),
                             !.pc = "T_enrich"],
                Issued("findTagsForMultiplePosts", 1))

\* await Promise.all(postsForFeed.map(...)): one getItemImageUrl per row.
TagsEnrich ==
    /\ call.pc = "T_enrich"
    /\ \E completion \in CompletionOrders(Len(call.postsForFeed)) :
          LET values == [i \in DOMAIN call.postsForFeed |->
                            FeedEntry(call.postsForFeed[i], call.tagsMap,
                                      getItemImageUrl(call.postsForFeed[i].itemId))]
          IN  Continue([call EXCEPT !.feedResults = PromiseAll(values, completion),
                                    !.completion = completion,
                                    !.pc = "T_finish"],
                       IssuedForImages(call.postsForFeed))

TagsFinish ==
    /\ call.pc = "T_finish"
    /\ ParseAndReturn(call.feedResults)

(***************************************************************************)
(* Initial states: every small data set.                                   *)
(***************************************************************************)
\* Every post has an item of its author, here an item of its own.
PostRows ==
    {[id |-> i, authorId |-> a, itemId |-> i, createdAt |-> t] :
        i \in PostIds, a \in Authors, t \in Times}

\* The items of the posts ps, none with a default photo.
ItemsOf(ps) ==
    {[id |-> p.itemId, userId |-> p.authorId, defaultPhotoId |-> Null, createdAt |-> 1] :
        p \in ps}

\* Post ids are 1..n, one row per id.
PostTables ==
    {S \in SUBSET PostRows :
        /\ \A p \in S, q \in S : p.id = q.id => p = q
        /\ {p.id : p \in S} = 1..Cardinality(S)}

\* Post ids only name the posts: of the data sets that differ by a renaming
\* of the post ids, the one whose rows ascend in (authorId, createdAt, tags)
\* is taken.
RowKey(p, pt) ==
    4 * p.authorId + 2 * p.createdAt + (IF \E t \in Tags : <<p.id, t>> \in pt THEN 1 ELSE 0)

Canonical(ps, pt) ==
    \A p \in ps, q \in ps : p.id < q.id => RowKey(p, pt) <= RowKey(q, pt)

InitData ==
    /\ posts \in PostTables
    /\ items = ItemsOf(posts)
    /\ photos = {}
    /\ postTags \in SUBSET ({p.id : p \in posts} \X Tags)
    /\ Canonical(posts, postTags)
    /\ \E S \in SUBSET (Viewers \X Authors) : follows = SetToBag(S)
    /\ tagFollows \in SUBSET (Viewers \X Tags)
    /\ likes = EmptyBag
    /\ comments = {}
    /\ notifications = <<>>

InitRequest ==
    /\ req = Idle
    /\ call = NoCall
    /\ usersFeed = <<>>
    /\ queries = NoQueries
    /\ resp = NoResp
    /\ hist = <<>>
    /\ ops = NoOps

Init == InitData /\ InitRequest

Next ==
    \/ GetFollowingUsersFeed
    \/ GetFollowingTagsFeed
    \/ GetCombinedFeed
    \/ UsersFollows
    \/ UsersPostIds
    \/ UsersPosts
    \/ UsersTags
    \/ UsersEnrich
    \/ UsersFinish
    \/ TagsFollows
    \/ TagsPostIds
    \/ TagsPosts
    \/ TagsTags
    \/ TagsEnrich
    \/ TagsFinish

Spec == Init /\ [][Next]_vars

(***************************************************************************)
(* A client that pages through the combined feed: after a response it asks *)
(* again with the same arguments, or for the next page, or, having read    *)
(* two consecutive pages, for both as one page.  No table is written.      *)
(***************************************************************************)
RepeatCombinedFeed ==
    /\ req.op = "idle"
    /\ resp.op = "combined"
    /\ hist = <<>>
    /\ Begin("combined", resp.userId, resp.limit, resp.offset,
             CombinedFirst(resp.limit, resp.offset), <<Seen(resp)>>)

NextPageCombinedFeed ==
    /\ req.op = "idle"
    /\ resp.op = "combined"
    /\ hist = <<>>
    /\ resp.limit <= MaxLimit
    /\ Begin("combined", resp.userId, resp.limit, resp.offset + resp.limit,
             CombinedFirst(resp.limit, resp.offset + resp.limit), <<Seen(resp)>>)

DoublePageCombinedFeed ==
    /\ req.op = "idle"
    /\ resp.op = "combined"
    /\ Len(hist) = 1
    /\ hist[1].limit = resp.limit
    /\ hist[1].offset + hist[1].limit = resp.offset
    /\ Begin("combined", resp.userId, 2 * resp.limit, hist[1].offset,
             CombinedFirst(2 * resp.limit, hist[1].offset), <<hist[1], Seen(resp)>>)

NextSession ==
    \/ Next
    \/ RepeatCombinedFeed
    \/ NextPageCombinedFeed
    \/ DoublePageCombinedFeed

SpecSession == Init /\ [][NextSession]_vars

(***************************************************************************)
(* A data set with more post_tags rows for a followed tag than             *)
(* findPostIdsByTagIds returns: posts 1..BulkRows of a user the viewer     *)
(* does not follow all carry the followed tag 1, and one more post, of a   *)
(* followed user, carries no tag.  Every post has its own timestamp.       *)
(***************************************************************************)
BulkRows == PostIdsDefaultLimit + 1

BulkPosts ==
    {[id |-> i, authorId |-> 3, itemId |-> i, createdAt |-> i] : i \in 1..BulkRows}
        \cup {[id |-> BulkRows + 1, authorId |-> 2, itemId |-> BulkRows + 1,
                createdAt |-> BulkRows + 1]}

InitBulk ==
    /\ posts = BulkPosts
    /\ items = ItemsOf(posts)
    /\ photos = {}
    /\ postTags = {<<i, 1>> : i \in 1..BulkRows}
    /\ follows = SetToBag({<<1, 2>>})
    /\ tagFollows = {<<1, 1>>}
    /\ likes = EmptyBag
    /\ comments = {}
    /\ notifications = <<>>
    /\ InitRequest

SpecBulk == InitBulk /\ [][Next]_vars

(***************************************************************************)
(* Likes written while a feed request is in flight.                        *)
(***************************************************************************)
\* likeRepository.findLike(userId, postId)
findLike(userId, postId) == BagIn(<<userId, postId>>, likes)

\* postRepository.findPostById(postId): the set of the rows found.
findPostById(postId) == {p \in posts : p.id = postId}

\* createLikeNotification(postAuthorId, actorId, postId): the row inserted,
\* none for one's own post.
createLikeNotification(postAuthorId, actorId, postId) ==
    IF postAuthorId = actorId THEN <<>>
    ELSE <<[userId |-> postAuthorId, type |-> "like", actorId |-> actorId,
            subjectId |-> postId]>>

\* likePost(userId, postId): 404 without the post; nothing is written for a
\* like that is already there; otherwise the like is inserted and, for
\* another user's post, a notification, whose failure is logged and dropped.
LikePost ==
    /\ Len(notifications) < MaxNotifications
    /\ \E userId \in Users, postId \in PostIds, inserted \in BOOLEAN :
          LET post == findPostById(postId)
          IN  /\ IF post = {} \/ findLike(userId, postId)
                 THEN UNCHANGED <<likes, notifications>>
                 ELSE /\ likes' = likes (+) SetToBag({<<userId, postId>>})
                      /\ LET author == (CHOOSE p \in post : TRUE).authorId
                         IN  notifications' =
                               IF author # userId /\ inserted
                               THEN notifications \o createLikeNotification(author, userId, postId)
                               ELSE notifications
              /\ UNCHANGED <<posts, items, photos, follows, tagFollows, postTags, comments,
                             req, call, usersFeed, queries, resp, hist, ops>>

\* unlikePost(userId, postId): 404 without the post; otherwise the like is
\* deleted, whether or not it was there.
UnlikePost ==
    /\ \E userId \in Users, postId \in PostIds :
          /\ likes' = IF findPostById(postId) = {} THEN likes
                      ELSE [l \in DOMAIN likes \ {<<userId, postId>>} |-> likes[l]]
          /\ UNCHANGED <<posts, items, photos, follows, tagFollows, postTags, comments,
                         notifications, req, call, usersFeed, queries, resp, hist, ops>>

\* One post of a followed user that carries a followed tag.
InitConc ==
    /\ posts = {[id |-> 1, authorId |-> 2, itemId |-> 1, createdAt |-> 1]}
    /\ items = ItemsOf(posts)
    /\ photos = {}
    /\ postTags = {<<1, 1>>}
    /\ follows = SetToBag({<<1, 2>>})
    /\ tagFollows = {<<1, 1>>}
    /\ likes = EmptyBag
    /\ comments = {}
    /\ notifications = <<>>
    /\ InitRequest

NextConc ==
    \/ Next
    \/ LikePost
    \/ UnlikePost

SpecConc == InitConc /\ [][NextConc]_vars

(***************************************************************************)
(* A query that fails: the promise of an awaited repository or db call     *)
(* rejects.  getFollowingUsersFeed lets the error through, the other two   *)
(* functions and the routes catch it.                                      *)
(***************************************************************************)
\* The query awaited at each step of a source.
QueryAt ==
    [U_follows |-> "findFollowingIds", U_ids |-> "postIds",
     U_posts |-> "findPostsForFeedByIds", U_tags |-> "findTagsForMultiplePosts",
     U_enrich |-> "findItemById",
     T_follows |-> "findFollowingTagIds", T_ids |-> "findPostIdsByTagIds",
     T_posts |-> "postsForFeed", T_tags |-> "findTagsForMultiplePosts",
     T_enrich |-> "findItemById"]

QueryFails ==
    /\ call.pc \in DOMAIN QueryAt
    /\ Fail("db", Issued(QueryAt[call.pc], 1))

\* Every small data set of a viewer who follows every author and every tag.
InitFollowing ==
    /\ posts \in PostTables
    /\ items = ItemsOf(posts)
    /\ photos = {}
    /\ postTags \in SUBSET ({p.id : p \in posts} \X Tags)
    /\ Canonical(posts, postTags)
    /\ follows = SetToBag(Viewers \X Authors)
    /\ tagFollows = Viewers \X Tags
    /\ likes = EmptyBag
    /\ comments = {}
    /\ notifications = <<>>
    /\ InitRequest

NextFail ==
    \/ Next
    \/ QueryFails

SpecFail == InitFollowing /\ [][NextFail]_vars

(***************************************************************************)
(* A posts row without a creation time: the column created_at has a        *)
(* default and no NOT NULL constraint, and FeedPostSchema requires a date. *)
(* Post 1 has a creation time, post 2 has none.                            *)
(***************************************************************************)
InvalidPostTables ==
    {{[id |-> 1, authorId |-> a, itemId |-> 1, createdAt |-> t],
      [id |-> 2, authorId |-> b, itemId |-> 2, createdAt |-> NullCreatedAt]} :
        a \in Authors, b \in Authors, t \in Times}

InitInvalid ==
    /\ posts \in InvalidPostTables
    /\ items = ItemsOf(posts)
    /\ photos = {}
    /\ postTags \in SUBSET ({p.id : p \in posts} \X Tags)
    /\ \E S \in SUBSET (Viewers \X Authors) : follows = SetToBag(S)
    /\ tagFollows \in SUBSET (Viewers \X Tags)
    /\ likes = EmptyBag
    /\ comments = {}
    /\ notifications = <<>>
    /\ InitRequest

SpecInvalid == InitInvalid /\ [][Next]_vars

(***************************************************************************)
(* An item deleted by its owner while a feed request is in flight.  The    *)
(* posts of the item go with it, and with them their post_tags, likes and  *)
(* photos; a photo row that references the item itself blocks the delete.  *)
(***************************************************************************)
\* deleteItem(userId, itemId): 404 when no item of that owner is deleted.
DeleteItem ==
    /\ \E userId \in Users, itemId \in PostIds :
          LET deleted == {it \in items : it.id = itemId /\ it.userId = userId}
              cascaded == {p \in posts : \E it \in deleted : p.itemId = it.id}
              gone == {p.id : p \in cascaded}
              kept == {ph \in photos : ph.postId \notin gone}
          IN  IF deleted = {} \/ \E ph \in kept : ph.itemId = itemId
              THEN UNCHANGED <<posts, items, photos, postTags, likes, comments>>
              ELSE /\ items' = items \ deleted
                   /\ posts' = posts \ cascaded
                   /\ photos' = kept
                   /\ postTags' = {pt \in postTags : pt[1] \notin gone}
                   /\ likes' = [l \in {x \in DOMAIN likes : x[2] \notin gone} |-> likes[l]]
                   /\ comments' = {c \in comments : c.postId \notin gone}
    /\ UNCHANGED <<follows, tagFollows, notifications, req, call, usersFeed, queries, resp,
                   hist, ops>>

NextDelete ==
    \/ Next
    \/ DeleteItem

SpecDelete == InitFollowing /\ [][NextDelete]_vars

(***************************************************************************)
(* Items with and without a default photo.  items.default_photo_id has no  *)
(* foreign key and createItem and updateItem write the id they are given,  *)
(* so it may name a photo row that does not exist.                         *)
(***************************************************************************)
PhotoRows ==
    {[id |-> 1, postId |-> Null, itemId |-> 1, url |-> "a"],
     [id |-> 2, postId |-> Null, itemId |-> 2, url |-> "b"]}

\* Two posts of user 2, each with its own item, both with tag 1.
EnrichPosts ==
    {[id |-> 1, authorId |-> 2, itemId |-> 1, createdAt |-> 1],
     [id |-> 2, authorId |-> 2, itemId |-> 2, createdAt |-> 2]}

InitEnrich ==
    /\ posts = EnrichPosts
    /\ \E d1 \in {Null, 1, 2}, d2 \in {Null, 1, 2} :
          items = {[id |-> 1, userId |-> 2, defaultPhotoId |-> d1, createdAt |-> 1],
                   [id |-> 2, userId |-> 2, defaultPhotoId |-> d2, createdAt |-> 1]}
    /\ photos \in SUBSET PhotoRows
    /\ postTags = {p.id : p \in posts} \X Tags
    /\ \E S \in SUBSET (Viewers \X {2}) : follows = SetToBag(S)
    /\ tagFollows \in SUBSET (Viewers \X Tags)
    /\ likes = EmptyBag
    /\ comments = {}
    /\ notifications = <<>>
    /\ InitRequest

SpecEnrich == InitEnrich /\ [][Next]_vars

(***************************************************************************)
(* getCombinedFeed called with the viewer alone: limit and offset take     *)
(* their defaults.                                                         *)
(***************************************************************************)
GetCombinedFeedDefault ==
    /\ req.op = "idle"
    /\ \E userId \in Viewers :
          Begin("combined", userId, DefaultLimit, DefaultOffset,
                CombinedFirst(DefaultLimit, DefaultOffset), <<>>)

NextDefault ==
    \/ Next
    \/ GetCombinedFeedDefault

SpecDefault == InitFollowing /\ [][NextDefault]_vars

(***************************************************************************)
(* deleteComment(commentId, userId) of the comment service.                *)
(***************************************************************************)
CommentIds == 1..3

\* commentRepository.findCommentById(commentId): the set of the rows found.
findCommentById(commentId) == {c \in comments : c.id = commentId}

\* commentRepository.deleteComment(commentId, userId): the rows it deletes,
\* those of that id written by that user.
deleteCommentRows(commentId, userId) ==
    {c \in comments : c.id = commentId /\ c.authorId = userId}

StartDeleteComment ==
    \E c \in Calls, commentId \in CommentIds, userId \in Users :
        StartOp(c, "deleteComment", commentId, userId, "DC_find")

\* The first await without the comparison of the author with the caller.
DeleteCommentFindNoOwnerCheck ==
    \E c \in Calls :
        /\ ops[c].pc = "DC_find"
        /\ LET comment == findCommentById(ops[c].a)
               o == [ops[c] EXCEPT !.found = comment]
           IN  ops' = [ops EXCEPT ![c] =
                         IF comment = {} THEN Done(o, 404)
                         ELSE [o EXCEPT !.pc = "DC_delete"]]
        /\ UNCHANGED <<dbvars, feedvars>>

\* await findCommentById; 404 without the comment, 403 for another's.
DeleteCommentFind ==
    \E c \in Calls :
        /\ ops[c].pc = "DC_find"
        /\ LET comment == findCommentById(ops[c].a)
               o == [ops[c] EXCEPT !.found = comment]
           IN  ops' = [ops EXCEPT ![c] =
                         IF comment = {} THEN Done(o, 404)
                         ELSE IF \E row \in comment : row.authorId # ops[c].b
                         THEN Done(o, 403)
                         ELSE [o EXCEPT !.pc = "DC_delete"]]
        /\ UNCHANGED <<dbvars, feedvars>>

\* await commentRepository.deleteComment; 500 when nothing was deleted.
DeleteCommentDelete ==
    \E c \in Calls :
        /\ ops[c].pc = "DC_delete"
        /\ LET rows == deleteCommentRows(ops[c].a, ops[c].b)
               o == [ops[c] EXCEPT !.deleted = TRUE]
           IN  /\ comments' = comments \ rows
               /\ ops' = [ops EXCEPT ![c] = Done(o, IF rows = {} THEN 500 ELSE 200)]
        /\ UNCHANGED <<posts, items, photos, follows, tagFollows, postTags, likes,
                       notifications, feedvars>>

\* One post and up to two comments on it, of users 1 and 2.
InitComment ==
    /\ posts = {[id |-> 1, authorId |-> 2, itemId |-> 1, createdAt |-> 1]}
    /\ items = ItemsOf(posts)
    /\ photos = {}
    /\ postTags = {}
    /\ follows = EmptyBag
    /\ tagFollows = {}
    /\ likes = EmptyBag
    /\ comments \in SUBSET {[id |-> 1, postId |-> 1, authorId |-> 1],
                            [id |-> 2, postId |-> 1, authorId |-> 2]}
    /\ notifications = <<>>
    /\ InitRequest

NextComment ==
    \/ StartDeleteComment
    \/ DeleteCommentFind
    \/ DeleteCommentDelete

SpecComment == InitComment /\ [][NextComment]_vars

(***************************************************************************)
(* getUserItems(userId) and getItemById(itemId) of the item service.  An   *)
(* items row without a creation time (the column is nullable) fails        *)
(* ItemSchema.                                                             *)
(***************************************************************************)
ItemIds == 1..4

\* ItemSchema.parse: createdAt is z.date().
ValidItem(item) == item.createdAt # NullCreatedAt

\* itemRepository.findItemsByUserId(userId): the rows, in some order.
findItemsByUserId(userId) == Perms({it \in items : it.userId = userId})

StartGetUserItems ==
    \E c \in Calls, userId \in Users : StartOp(c, "getUserItems", userId, 0, "GU_find")

\* await findItemsByUserId, and one invalid row fails the call.
GetUserItemsAllOrNothing ==
    \E c \in Calls :
        /\ ops[c].pc = "GU_find"
        /\ \E userItems \in findItemsByUserId(ops[c].a) :
              ops' = [ops EXCEPT ![c] =
                        IF \A i \in DOMAIN userItems : ValidItem(userItems[i])
                        THEN Done([ops[c] EXCEPT !.found = userItems, !.list = userItems], 200)
                        ELSE Done([ops[c] EXCEPT !.found = userItems], 500)]
        /\ UNCHANGED <<dbvars, feedvars>>

\* await findItemsByUserId; each row is parsed, a row that fails is logged
\* and filtered out.
GetUserItems ==
    \E c \in Calls :
        /\ ops[c].pc = "GU_find"
        /\ \E userItems \in findItemsByUserId(ops[c].a) :
              ops' = [ops EXCEPT ![c] =
                        Done([ops[c] EXCEPT !.found = userItems,
                                            !.list = SelectSeq(userItems, ValidItem)], 200)]
        /\ UNCHANGED <<dbvars, feedvars>>

StartGetItemById ==
    \E c \in Calls, itemId \in ItemIds : StartOp(c, "getItemById", itemId, 0, "GI_find")

\* await findItemById; 404 without the row, 500 when the row fails the parse.
GetItemById ==
    \E c \in Calls :
        /\ ops[c].pc = "GI_find"
        /\ LET item == findItemById(ops[c].a)
               o == [ops[c] EXCEPT !.found = item]
           IN  ops' = [ops EXCEPT ![c] =
                         IF item = {} THEN Done(o, 404)
                         ELSE IF \E it \in item : ~ValidItem(it) THEN Done(o, 500)
                         ELSE Done([o EXCEPT !.list = <<CHOOSE it \in item : TRUE>>], 200)]
        /\ UNCHANGED <<dbvars, feedvars>>

\* Items 1, 2 and 3 are of user 2 and item 4 is of user 3; item 2 has no
\* creation time.
ItemRows ==
    {[id |-> 1, userId |-> 2, defaultPhotoId |-> Null, createdAt |-> 1],
     [id |-> 2, userId |-> 2, defaultPhotoId |-> Null, createdAt |-> NullCreatedAt],
     [id |-> 3, userId |-> 2, defaultPhotoId |-> Null, createdAt |-> 2],
     [id |-> 4, userId |-> 3, defaultPhotoId |-> Null, createdAt |-> 1]}

InitItems ==
    /\ posts = {}
    /\ items \in SUBSET ItemRows
    /\ photos = {}
    /\ postTags = {}
    /\ follows = EmptyBag
    /\ tagFollows = {}
    /\ likes = EmptyBag
    /\ comments = {}
    /\ notifications = <<>>
    /\ InitRequest

NextItems ==
    \/ StartGetUserItems
    \/ GetUserItems
    \/ StartGetItemById
    \/ GetItemById

SpecItems == InitItems /\ [][NextItems]_vars

(***************************************************************************)
(* The writes of other requests while a feed request is in flight: posts,  *)
(* follows, tag follows and post_tags rows are inserted and deleted, one   *)
(* statement at a time, between the awaits of the feed request.            *)
(***************************************************************************)
\* The post ids the request in flight holds.
HeldPostIds ==
    {call.postIds[i] : i \in DOMAIN call.postIds}
        \cup call.postIdsWithTags
        \cup {call.postsForFeed[i].id : i \in DOMAIN call.postsForFeed}
        \cup {usersFeed[i].id : i \in DOMAIN usersFeed}

\* posts.id is a bigserial: the new row has an id no row has had.
FreshPostIds == (1..(MaxPosts + 1)) \ ({p.id : p \in posts} \cup HeldPostIds)
FreshPostId == CHOOSE i \in FreshPostIds : \A j \in FreshPostIds : i <= j

\* Another request, the next of Calls, writes while the feed request is in
\* flight.
WrittenBy(op, a, b) ==
    /\ req.op # "idle"
    /\ \E c \in Calls :
          /\ ops[c].op = "none"
          /\ \A d \in Calls : d < c => ops[d].op # "none"
          /\ ops' = [ops EXCEPT ![c] = Done([NoOp EXCEPT !.op = op, !.a = a, !.b = b], 200)]
    /\ UNCHANGED feedvars

\* insert into posts: a post of an item of its author, created now.
CreatePost ==
    /\ FreshPostIds # {}
    /\ \E it \in items, t \in Times :
          /\ \A p \in posts : p.createdAt <= t
          /\ posts' = posts \cup {[id |-> FreshPostId, authorId |-> it.userId,
                                   itemId |-> it.id, createdAt |-> t]}
          /\ WrittenBy("createPost", it.userId, it.id)
    /\ UNCHANGED <<items, photos, follows, tagFollows, postTags, likes, comments,
                   notifications>>

\* delete from posts where id = postId and author_id = authorId, with the
\* cascade to post_tags, likes, comments and photos.
DeletePost ==
    /\ \E p \in posts :
          /\ posts' = posts \ {p}
          /\ postTags' = {pt \in postTags : pt[1] # p.id}
          /\ likes' = [l \in {x \in DOMAIN likes : x[2] # p.id} |-> likes[l]]
          /\ comments' = {c \in comments : c.postId # p.id}
          /\ photos' = {ph \in photos : ph.postId # p.id}
          /\ WrittenBy("deletePost", p.id, p.authorId)
    /\ UNCHANGED <<items, follows, tagFollows, notifications>>

\* insert into follows, where the primary key admits the row.
CreateFollow ==
    /\ \E f \in Viewers \X Authors :
          /\ ~BagIn(f, follows)
          /\ follows' = follows (+) SetToBag({f})
          /\ WrittenBy("createFollow", f[1], f[2])
    /\ UNCHANGED <<posts, items, photos, tagFollows, postTags, likes, comments,
                   notifications>>

\* delete from follows where follower_id = ... and followee_id = ...
DeleteFollow ==
    /\ \E f \in BagToSet(follows) :
          /\ follows' = [g \in BagToSet(follows) \ {f} |-> follows[g]]
          /\ WrittenBy("deleteFollow", f[1], f[2])
    /\ UNCHANGED <<posts, items, photos, tagFollows, postTags, likes, comments,
                   notifications>>

\* insert into tag_follows, where the primary key admits the row.
CreateTagFollow ==
    /\ \E f \in (Viewers \X Tags) \ tagFollows :
          /\ tagFollows' = tagFollows \cup {f}
          /\ WrittenBy("createTagFollow", f[1], f[2])
    /\ UNCHANGED <<posts, items, photos, follows, postTags, likes, comments,
                   notifications>>

\* delete from tag_follows where follower_id = ... and tag_id = ...
DeleteTagFollow ==
    /\ \E f \in tagFollows :
          /\ tagFollows' = tagFollows \ {f}
          /\ WrittenBy("deleteTagFollow", f[1], f[2])
    /\ UNCHANGED <<posts, items, photos, follows, postTags, likes, comments,
                   notifications>>

\* insert into post_tags, for a post that exists, where the primary key
\* admits the row.
AddTagToPost ==
    /\ \E pt \in ({p.id : p \in posts} \X Tags) \ postTags :
          /\ postTags' = postTags \cup {pt}
          /\ WrittenBy("addTagToPost", pt[1], pt[2])
    /\ UNCHANGED <<posts, items, photos, follows, tagFollows, likes, comments,
                   notifications>>

\* delete from post_tags where post_id = ... and tag_id = ...
RemoveTagFromPost ==
    /\ \E pt \in postTags :
          /\ postTags' = postTags \ {pt}
          /\ WrittenBy("removeTagFromPost", pt[1], pt[2])
    /\ UNCHANGED <<posts, items, photos, follows, tagFollows, likes, comments,
                   notifications>>

\* Post 1 of user 2 carries tag 1; the viewer follows user 2 and tag 1; user
\* 3 has an item and no post.
InitWrites ==
    /\ posts = {[id |-> 1, authorId |-> 2, itemId |-> 1, createdAt |-> 1]}
    /\ items = {[id |-> 1, userId |-> 2, defaultPhotoId |-> Null, createdAt |-> 1],
                [id |-> 2, userId |-> 3, defaultPhotoId |-> Null, createdAt |-> 1]}
    /\ photos = {}
    /\ postTags = {<<1, 1>>}
    /\ follows = SetToBag({<<1, 2>>})
    /\ tagFollows = {<<1, 1>>}
    /\ likes = EmptyBag
    /\ comments = {}
    /\ notifications = <<>>
    /\ InitRequest

NextWrites ==
    \/ GetCombinedFeed
    \/ UsersFollows
    \/ UsersPostIds
    \/ UsersPosts
    \/ UsersTags
    \/ UsersEnrich
    \/ UsersFinish
    \/ TagsFollows
    \/ TagsPostIds
    \/ TagsPosts
    \/ TagsTags
    \/ TagsEnrich
    \/ TagsFinish
    \/ CreatePost
    \/ DeletePost
    \/ CreateFollow
    \/ DeleteFollow
    \/ CreateTagFollow
    \/ DeleteTagFollow
    \/ AddTagToPost
    \/ RemoveTagFromPost

SpecWrites == InitWrites /\ [][NextWrites]_vars

(***************************************************************************)
(* The feed routes.  zValidator('query', feedQuerySchema) parses the query *)
(* before the handler runs and answers 400 when the parse fails; the       *)
(* handler calls the service with the parsed limit and offset.             *)
(***************************************************************************)
\* Query parameter values as sent; a parameter is one of these or absent.
RawQuery == <<"", "0", "1", "100", "101", "-1", "1.5", "abc">>
RawValues == 0..Len(RawQuery)
Absent == 0

\* Number(s), as twice its value; a string that is no number gives NaN.
CoerceNumber(s) ==
    CASE s = "" -> [nan |-> FALSE, twice |-> 0]
      [] s = "0" -> [nan |-> FALSE, twice |-> 0]
      [] s = "1" -> [nan |-> FALSE, twice |-> 2]
      [] s = "100" -> [nan |-> FALSE, twice |-> 200]
      [] s = "101" -> [nan |-> FALSE, twice |-> 202]
      [] s = "-1" -> [nan |-> FALSE, twice |-> -2]
      [] s = "1.5" -> [nan |-> FALSE, twice |-> 3]
      [] OTHER -> [nan |-> TRUE, twice |-> 0]

\* z.coerce.number().int().min(min).max(max).default(default)
CoerceInt(raw, min, max, default) ==
    IF raw = Absent THEN [success |-> TRUE, value |-> default]
    ELSE LET n == CoerceNumber(RawQuery[raw])
         IN  IF n.nan \/ n.twice % 2 # 0 \/ n.twice < 2 * min \/ n.twice > 2 * max
             THEN [success |-> FALSE, value |-> 0]
             ELSE [success |-> TRUE, value |-> n.twice \div 2]

\* z.coerce.number().int().min(min).default(default)
CoerceIntFrom(raw, min, default) ==
    IF raw = Absent THEN [success |-> TRUE, value |-> default]
    ELSE LET n == CoerceNumber(RawQuery[raw])
         IN  IF n.nan \/ n.twice % 2 # 0 \/ n.twice < 2 * min
             THEN [success |-> FALSE, value |-> 0]
             ELSE [success |-> TRUE, value |-> n.twice \div 2]

LimitMin == 1
LimitMax == 100
QueryDefaultLimit == 20
OffsetMin == 0
QueryDefaultOffset == 0

\* The schema without the upper bound of limit.
feedQuerySchemaNoMax(rawLimit, rawOffset) ==
    LET limit == CoerceIntFrom(rawLimit, LimitMin, QueryDefaultLimit)
        offset == CoerceIntFrom(rawOffset, OffsetMin, QueryDefaultOffset)
    IN  [success |-> limit.success /\ offset.success,
         limit |-> limit.value, offset |-> offset.value]

feedQuerySchema(rawLimit, rawOffset) ==
    LET limit == CoerceInt(rawLimit, LimitMin, LimitMax, QueryDefaultLimit)
        offset == CoerceIntFrom(rawOffset, OffsetMin, QueryDefaultOffset)
    IN  [success |-> limit.success /\ offset.success,
         limit |-> limit.value, offset |-> offset.value]

\* The validator answers 400: the handler does not run.  hist holds the
\* query as sent.
Reject(op, userId, query) ==
    /\ resp' = [NoResp EXCEPT !.op = op, !.userId = userId, !.status = 400,
                              !.error = "query"]
    /\ queries' = NoQueries
    /\ hist' = query
    /\ UNCHANGED <<dbvars, req, call, usersFeed, ops>>

\* A request to a feed route of an authenticated user.
Route(op) ==
    /\ req.op = "idle"
    /\ \E userId \in Viewers, rawLimit \in RawValues, rawOffset \in RawValues :
          LET valid == feedQuerySchema(rawLimit, rawOffset)
              query == <<[limit |-> rawLimit, offset |-> rawOffset]>>
              first == IF op = "combined" THEN CombinedFirst(valid.limit, valid.offset)
                       ELSE NewCall(op, valid.limit, valid.offset)
          IN  IF valid.success
              THEN Begin(op, userId, valid.limit, valid.offset, first, query)
              ELSE Reject(op, userId, query)

\* GET /api/feed/users
RouteUsers == Route("users")

\* GET /api/feed/tags
RouteTags == Route("tags")

\* GET /api/feed
RouteCombined == Route("combined")

NextRoute ==
    \/ RouteUsers
    \/ RouteTags
    \/ RouteCombined
    \/ UsersFollows
    \/ UsersPostIds
    \/ UsersPosts
    \/ UsersTags
    \/ UsersEnrich
    \/ UsersFinish
    \/ TagsFollows
    \/ TagsPostIds
    \/ TagsPosts
    \/ TagsTags
    \/ TagsEnrich
    \/ TagsFinish

SpecRoute == InitWrites /\ [][NextRoute]_vars

(***************************************************************************)
(* likePost(userId, postId) and unlikePost(userId, postId), one await per  *)
(* step, so that the steps of two calls interleave.  In a call record a is *)
(* the user, b the post, found the post row read first, notified whether   *)
(* createLikeNotification was awaited and list the notification it made.   *)
(***************************************************************************)
\* The posts asked for: post 1 exists in SpecLikes, post 2 does not.
LikedPostIds == 1..2
Likers == {1, 2}

AuthorOf(post) == (CHOOSE p \in post : TRUE).authorId

StartLikePost ==
    \E c \in Calls, userId \in Likers, postId \in LikedPostIds :
        StartOp(c, "likePost", userId, postId, "LP_post")

\* await postRepository.findPostById(postId): 404 without the post.
LikePostFindPost ==
    \E c \in Calls :
        /\ ops[c].pc = "LP_post"
        /\ LET post == findPostById(ops[c].b)
           IN  ops' = [ops EXCEPT ![c] =
                         IF post = {} THEN Done(ops[c], 404)
                         ELSE [ops[c] EXCEPT !.found = post, !.pc = "LP_like"]]
        /\ UNCHANGED <<dbvars, feedvars>>

\* await likeRepository.findLike(userId, postId)
LikePostFindLike ==
    \E c \in Calls :
        /\ ops[c].pc = "LP_like"
        /\ ops' = [ops EXCEPT ![c].pc =
                      IF findLike(ops[c].a, ops[c].b) THEN "LP_existing" ELSE "LP_create"]
        /\ UNCHANGED <<dbvars, feedvars>>

\* The like is there: await countLikesByPostId and return with the message.
LikePostExisting ==
    \E c \in Calls :
        /\ ops[c].pc = "LP_existing"
        /\ ops' = [ops EXCEPT ![c] =
                      Done([ops[c] EXCEPT !.count = likesCountOf(ops[c].b)], 200)]
        /\ UNCHANGED <<dbvars, feedvars>>

\* The next await of likePost after the insert.
AfterCreateLike(o) ==
    [o EXCEPT !.inserted = TRUE,
              !.pc = IF AuthorOf(o.found) # o.a THEN "LP_notify" ELSE "LP_count"]

\* An insert into a likes table without its primary key.
LikePostCreateNoKey ==
    \E c \in Calls :
        /\ ops[c].pc = "LP_create"
        /\ likes' = likes (+) SetToBag({<<ops[c].a, ops[c].b>>})
        /\ ops' = [ops EXCEPT ![c] = AfterCreateLike(ops[c])]
        /\ UNCHANGED <<posts, items, photos, follows, tagFollows, postTags, comments,
                       notifications, feedvars>>

\* await likeRepository.createLike: the insert, which the primary key
\* (user_id, post_id) refuses for a row that is there by now; likePost does
\* not catch that error.
LikePostCreate ==
    \E c \in Calls :
        /\ ops[c].pc = "LP_create"
        /\ IF findLike(ops[c].a, ops[c].b)
           THEN /\ ops' = [ops EXCEPT ![c] = Done(ops[c], 500)]
                /\ UNCHANGED likes
           ELSE /\ likes' = likes (+) SetToBag({<<ops[c].a, ops[c].b>>})
                /\ ops' = [ops EXCEPT ![c] = AfterCreateLike(ops[c])]
        /\ UNCHANGED <<posts, items, photos, follows, tagFollows, postTags, comments,
                       notifications, feedvars>>

\* A failure of the notification ends likePost with an error.
LikePostNotifyFatal ==
    \E c \in Calls :
        /\ ops[c].pc = "LP_notify"
        /\ Len(notifications) < MaxNotifications
        /\ \E created \in BOOLEAN :
              LET made == IF created
                          THEN createLikeNotification(AuthorOf(ops[c].found), ops[c].a, ops[c].b)
                          ELSE <<>>
                  o == [ops[c] EXCEPT !.notified = TRUE, !.list = made]
              IN  /\ notifications' = notifications \o made
                  /\ ops' = [ops EXCEPT ![c] =
                                IF created THEN [o EXCEPT !.pc = "LP_count"] ELSE Done(o, 500)]
        /\ UNCHANGED <<posts, items, photos, follows, tagFollows, postTags, likes, comments,
                       feedvars>>

\* await createLikeNotification(post.authorId, userId, postId), for another
\* user's post: the notification is inserted, or the insert fails and the
\* failure is logged.
LikePostNotify ==
    \E c \in Calls :
        /\ ops[c].pc = "LP_notify"
        /\ Len(notifications) < MaxNotifications
        /\ \E created \in BOOLEAN :
              LET made == IF created
                          THEN createLikeNotification(AuthorOf(ops[c].found), ops[c].a, ops[c].b)
                          ELSE <<>>
              IN  /\ notifications' = notifications \o made
                  /\ ops' = [ops EXCEPT ![c] = [ops[c] EXCEPT !.notified = TRUE, !.list = made,
                                                              !.pc = "LP_count"]]
        /\ UNCHANGED <<posts, items, photos, follows, tagFollows, postTags, likes, comments,
                       feedvars>>

\* await countLikesByPostId and return.
LikePostCount ==
    \E c \in Calls :
        /\ ops[c].pc = "LP_count"
        /\ ops' = [ops EXCEPT ![c] =
                      Done([ops[c] EXCEPT !.count = likesCountOf(ops[c].b)], 200)]
        /\ UNCHANGED <<dbvars, feedvars>>

StartUnlikePost ==
    \E c \in Calls, userId \in Likers, postId \in LikedPostIds :
        StartOp(c, "unlikePost", userId, postId, "UP_post")

\* await postRepository.findPostById(postId): 404 without the post.
UnlikePostFindPost ==
    \E c \in Calls :
        /\ ops[c].pc = "UP_post"
        /\ LET post == findPostById(ops[c].b)
           IN  ops' = [ops EXCEPT ![c] =
                         IF post = {} THEN Done(ops[c], 404)
                         ELSE [ops[c] EXCEPT !.found = post, !.pc = "UP_delete"]]
        /\ UNCHANGED <<dbvars, feedvars>>

\* await likeRepository.deleteLike(userId, postId): no error without the row.
UnlikePostDelete ==
    \E c \in Calls :
        /\ ops[c].pc = "UP_delete"
        /\ likes' = [l \in BagToSet(likes) \ {<<ops[c].a, ops[c].b>>} |-> likes[l]]
        /\ ops' = [ops EXCEPT ![c] = [ops[c] EXCEPT !.deleted = findLike(ops[c].a, ops[c].b),
                                                    !.pc = "UP_count"]]
        /\ UNCHANGED <<posts, items, photos, follows, tagFollows, postTags, comments,
                       notifications, feedvars>>

\* await countLikesByPostId and return.
UnlikePostCount ==
    \E c \in Calls :
        /\ ops[c].pc = "UP_count"
        /\ ops' = [ops EXCEPT ![c] =
                      Done([ops[c] EXCEPT !.count = likesCountOf(ops[c].b)], 200)]
        /\ UNCHANGED <<dbvars, feedvars>>

\* Post 1 of user 2; no likes.
InitLikes ==
    /\ posts = {[id |-> 1, authorId |-> 2, itemId |-> 1, createdAt |-> 1]}
    /\ items = ItemsOf(posts)
    /\ photos = {}
    /\ postTags = {}
    /\ follows = EmptyBag
    /\ tagFollows = {}
    /\ likes = EmptyBag
    /\ comments = {}
    /\ notifications = <<>>
    /\ InitRequest

NextLikes ==
    \/ StartLikePost
    \/ LikePostFindPost
    \/ LikePostFindLike
    \/ LikePostExisting
    \/ LikePostCreate
    \/ LikePostNotify
    \/ LikePostCount
    \/ StartUnlikePost
    \/ UnlikePostFindPost
    \/ UnlikePostDelete
    \/ UnlikePostCount

SpecLikes == InitLikes /\ [][NextLikes]_vars

(***************************************************************************)
(* followUser(followerId, followeeId) and unfollowUser(followerId,         *)
(* followeeId), one await per step.  In a call record a is the follower    *)
(* and b the followee.                                                     *)
(***************************************************************************)
\* The follower is an authenticated user; user 4 does not exist.
Followers == {1, 2}
Followees == {1, 2, 4}

\* userRepository.findUserById(id): the set of the rows found.
findUserById(id) == {u \in Users : u = id}

\* followRepository.findFollow(followerId, followeeId)
findFollow(followerId, followeeId) == BagIn(<<followerId, followeeId>>, follows)

StartFollowUser ==
    \E c \in Calls, followerId \in Followers, followeeId \in Followees :
        StartOp(c, "followUser", followerId, followeeId, "FU_user")

\* await userRepository.findUserById(followeeId) without the check before it.
FollowUserFindUserNoSelfCheck ==
    \E c \in Calls :
        /\ ops[c].pc = "FU_user"
        /\ ops' = [ops EXCEPT ![c] =
                      IF findUserById(ops[c].b) = {} THEN Done(ops[c], 404)
                      ELSE [ops[c] EXCEPT !.pc = "FU_follow"]]
        /\ UNCHANGED <<dbvars, feedvars>>

\* 400 for oneself; await userRepository.findUserById(followeeId): 404
\* without the user.
FollowUserFindUser ==
    \E c \in Calls :
        /\ ops[c].pc = "FU_user"
        /\ ops' = [ops EXCEPT ![c] =
                      IF ops[c].a = ops[c].b THEN Done(ops[c], 400)
                      ELSE IF findUserById(ops[c].b) = {} THEN Done(ops[c], 404)
                      ELSE [ops[c] EXCEPT !.pc = "FU_follow"]]
        /\ UNCHANGED <<dbvars, feedvars>>

\* await followRepository.findFollow: success with a message when the
\* follow is there.
FollowUserFindFollow ==
    \E c \in Calls :
        /\ ops[c].pc = "FU_follow"
        /\ ops' = [ops EXCEPT ![c] =
                      IF findFollow(ops[c].a, ops[c].b) THEN Done(ops[c], 200)
                      ELSE [ops[c] EXCEPT !.pc = "FU_create"]]
        /\ UNCHANGED <<dbvars, feedvars>>

\* await followRepository.createFollow in try/catch: the insert, which the
\* primary key (follower_id, followee_id) refuses for a row that is there
\* by now; an error of the insert becomes 500.
FollowUserCreate ==
    \E c \in Calls :
        /\ ops[c].pc = "FU_create"
        /\ IF findFollow(ops[c].a, ops[c].b)
           THEN /\ ops' = [ops EXCEPT ![c] = Done(ops[c], 500)]
                /\ UNCHANGED follows
           ELSE /\ follows' = follows (+) SetToBag({<<ops[c].a, ops[c].b>>})
                /\ ops' = [ops EXCEPT ![c] = Done([ops[c] EXCEPT !.inserted = TRUE], 200)]
        /\ UNCHANGED <<posts, items, photos, tagFollows, postTags, likes, comments,
                       notifications, feedvars>>

StartUnfollowUser ==
    \E c \in Calls, followerId \in Followers, followeeId \in Followees :
        StartOp(c, "unfollowUser", followerId, followeeId, "UU_delete")

\* 400 for oneself; await followRepository.deleteFollow: success with or
\* without the row.
UnfollowUserDelete ==
    \E c \in Calls :
        /\ ops[c].pc = "UU_delete"
        /\ IF ops[c].a = ops[c].b
           THEN /\ ops' = [ops EXCEPT ![c] = Done(ops[c], 400)]
                /\ UNCHANGED follows
           ELSE /\ follows' = [f \in BagToSet(follows) \ {<<ops[c].a, ops[c].b>>} |-> follows[f]]
                /\ ops' = [ops EXCEPT ![c] =
                              Done([ops[c] EXCEPT !.deleted = findFollow(ops[c].a, ops[c].b)],
                                   200)]
        /\ UNCHANGED <<posts, items, photos, tagFollows, postTags, likes, comments,
                       notifications, feedvars>>

\* No posts, no follows.
InitFollow ==
    /\ posts = {}
    /\ items = {}
    /\ photos = {}
    /\ postTags = {}
    /\ follows = EmptyBag
    /\ tagFollows = {}
    /\ likes = EmptyBag
    /\ comments = {}
    /\ notifications = <<>>
    /\ InitRequest

NextFollow ==
    \/ StartFollowUser
    \/ FollowUserFindUser
    \/ FollowUserFindFollow
    \/ FollowUserCreate
    \/ StartUnfollowUser
    \/ UnfollowUserDelete

SpecFollow == InitFollow /\ [][NextFollow]_vars

(***************************************************************************)
(* Terms the properties are stated in.                                     *)
(***************************************************************************)
\* The posts written by a user that userId follows.
FollowedUsersPosts(userId) == {p \in posts : BagIn(<<userId, p.authorId>>, follows)}

\* The posts that carry a tag that userId follows.
FollowedTagsPosts(userId) ==
    {p \in posts : \E t \in Tags : <<p.id, t>> \in postTags /\ <<userId, t>> \in tagFollows}

IdsOf(list) == {list[i].id : i \in DOMAIN list}
NoDuplicateIds(list) == \A i \in DOMAIN list, j \in DOMAIN list : i # j => list[i].id # list[j].id
NewestFirst(list) == \A i \in 1..(Len(list) - 1) : list[i].createdAt >= list[i + 1].createdAt

\* list is positions [offset, offset + limit) of an ordering of the rows M by
\* createdAt descending.
IsPageOf(list, M, limit, offset) ==
    /\ Len(list) = Max(0, Min(limit, Cardinality(M) - offset))
    /\ NoDuplicateIds(list)
    /\ NewestFirst(list)
    /\ \A i \in DOMAIN list :
          /\ \E p \in M : p.id = list[i].id /\ p.createdAt = list[i].createdAt
                          /\ p.authorId = list[i].authorId
          /\ Cardinality({p \in M : p.createdAt > list[i].createdAt}) <= offset + i - 1
          /\ Cardinality({p \in M : p.createdAt >= list[i].createdAt}) >= offset + i

(***************************************************************************)
(* C1: a list returned by getCombinedFeed has no two entries with the same *)
(* post id; a post delivered by both sources is in the merged list exactly *)
(* once, no older entry before it and no newer entry after it.             *)
(***************************************************************************)
C1_NoDuplicatePost ==
    resp.op = "combined" =>
        /\ NoDuplicateIds(resp.posts)
        /\ NoDuplicateIds(resp.sortedPosts)
        /\ \A id \in IdsOf(resp.usersFeed) \cap IdsOf(resp.tagsFeed) :
              \E i \in DOMAIN resp.sortedPosts :
                  /\ resp.sortedPosts[i].id = id
                  /\ \A j \in DOMAIN resp.sortedPosts :
                        /\ j < i => resp.sortedPosts[j].createdAt >= resp.sortedPosts[i].createdAt
                        /\ j > i => resp.sortedPosts[j].createdAt <= resp.sortedPosts[i].createdAt

\* A post that both sources delivered is on the returned page.
C1_Witness ==
    /\ resp.op = "combined"
    /\ \E id \in IdsOf(resp.posts) : id \in IdsOf(resp.usersFeed) /\ id \in IdsOf(resp.tagsFeed)
    /\ Len(resp.posts) = 2

(***************************************************************************)
(* C2: every list returned by getCombinedFeed, getFollowingUsersFeed or    *)
(* getFollowingTagsFeed is ordered by createdAt, newest first.             *)
(***************************************************************************)
C2_NewestFirst ==
    resp.op \in {"users", "tags", "combined"} => NewestFirst(resp.posts)

\* The tags source delivered, after the users source, an entry newer than
\* one of the users source, and both are on the returned page.
C2_Witness ==
    /\ resp.op = "combined"
    /\ Len(resp.posts) = 2
    /\ resp.posts[1].createdAt > resp.posts[2].createdAt
    /\ resp.posts[1].id \in IdsOf(resp.tagsFeed) \ IdsOf(resp.usersFeed)
    /\ resp.posts[2].id \in IdsOf(resp.usersFeed)

(***************************************************************************)
(* C3: getCombinedFeed returns exactly positions [offset, offset + limit)  *)
(* of the merged, de-duplicated, sorted list: at most limit entries, and   *)
(* the empty list, not an error, when offset is at or past its end.        *)
(***************************************************************************)
C3_PageOfMergedList ==
    resp.op = "combined" =>
        /\ resp.status = 200
        /\ IdsOf(resp.sortedPosts) = IdsOf(resp.usersFeed) \cup IdsOf(resp.tagsFeed)
        /\ NoDuplicateIds(resp.sortedPosts)
        /\ NewestFirst(resp.sortedPosts)
        /\ Len(resp.posts) <= resp.limit
        /\ Len(resp.posts) = Max(0, Min(resp.limit, Len(resp.sortedPosts) - resp.offset))
        /\ \A i \in DOMAIN resp.posts : resp.posts[i] = resp.sortedPosts[resp.offset + i]
        /\ resp.offset >= Len(resp.sortedPosts) => resp.posts = <<>>

\* A page that starts after the first entry of a merged list of two.
C3_Witness ==
    /\ resp.op = "combined"
    /\ resp.offset = 1
    /\ resp.limit = 1
    /\ Len(resp.sortedPosts) = 2
    /\ resp.posts = <<resp.sortedPosts[2]>>

C9_UsersFeedPage ==
    /\ resp.op = "users" =>
          /\ resp.status = 200
          /\ IsPageOf(resp.posts, FollowedUsersPosts(resp.userId), resp.limit, resp.offset)
    /\ (call.fn = "users" /\ call.pc \in {"U_posts", "U_tags", "U_enrich", "U_finish"}) =>
          /\ Len(call.postIds) <= call.limit
          /\ Len(call.postIds) =
                Max(0, Min(call.limit, Cardinality(FollowedUsersPosts(req.userId)) - call.offset))

\* The second of two posts of followed users is returned alone.
C9_Witness ==
    /\ resp.op = "users"
    /\ resp.limit = 1
    /\ resp.offset = 1
    /\ Cardinality(FollowedUsersPosts(resp.userId)) = 2
    /\ Len(resp.posts) = 1

(***************************************************************************)
(* C4: on unchanged tables, the page getCombinedFeed(v, L, O) followed by  *)
(* the page getCombinedFeed(v, L, O + L) is the page                       *)
(* getCombinedFeed(v, 2L, O).                                              *)
(***************************************************************************)
C4_PaginationSliceLaw ==
    (resp.op = "combined" /\ Len(hist) = 2) => hist[1].posts \o hist[2].posts = resp.posts

(***************************************************************************)
(* C5: on unchanged tables, two calls of getCombinedFeed with the same     *)
(* arguments return the same list, entries with equal createdAt included.  *)
(***************************************************************************)
C5_Idempotent ==
    (/\ resp.op = "combined"
     /\ Len(hist) = 1
     /\ hist[1].userId = resp.userId
     /\ hist[1].limit = resp.limit
     /\ hist[1].offset = resp.offset) => resp.posts = hist[1].posts

(***************************************************************************)
(* C6: of two entries with the same post id, getCombinedFeed keeps the one *)
(* of getFollowingUsersFeed, the first in the concatenation, and returns   *)
(* normally.                                                               *)
(***************************************************************************)
C6_FirstSeenKept ==
    resp.op = "combined" =>
        /\ resp.status = 200
        /\ \A i \in DOMAIN resp.sortedPosts, u \in DOMAIN resp.usersFeed :
              resp.usersFeed[u].id = resp.sortedPosts[i].id =>
                  resp.sortedPosts[i] = resp.usersFeed[u]

(***************************************************************************)
(* C8: when fewer than 100 posts match each source and limit is at least   *)
(* the number of matching posts, getCombinedFeed(viewer, limit, 0) returns *)
(* exactly the posts of followed users or with a followed tag, each once,  *)
(* newest first.                                                           *)
(***************************************************************************)
C8_AllMatchingPosts ==
    LET M == FollowedUsersPosts(resp.userId) \cup FollowedTagsPosts(resp.userId)
    IN  (/\ resp.op = "combined"
         /\ resp.offset = 0
         /\ Cardinality(FollowedUsersPosts(resp.userId)) < 100
         /\ Cardinality(FollowedTagsPosts(resp.userId)) < 100
         /\ resp.limit >= Cardinality(M)) =>
            /\ Len(resp.posts) = Cardinality(M)
            /\ IsPageOf(resp.posts, M, resp.limit, 0)

(***************************************************************************)
(* C10: getFollowingTagsFeed returns positions [offset, offset + limit) of *)
(* all the posts that carry a followed tag, ordered by createdAt           *)
(* descending, each post once, however many post_tags rows match.          *)
(***************************************************************************)
C10_TagsFeedPage ==
    resp.op = "tags" =>
        IsPageOf(resp.posts, FollowedTagsPosts(resp.userId), resp.limit, resp.offset)

\* The request issued one query, of this kind.
OnlyQuery(kind) == queries = [NoQueries EXCEPT ![kind] = 1]

(***************************************************************************)
(* C11: for a viewer who follows no users, getFollowingUsersFeed returns   *)
(* the empty list after exactly one query, the lookup of the followed      *)
(* users: no post, tag, item or photo query is issued.                     *)
(***************************************************************************)
C11_NoFollowsOneQuery ==
    (resp.op = "users" /\ findFollowingIds(resp.userId) = {}) =>
        /\ resp.status = 200
        /\ resp.posts = <<>>
        /\ OnlyQuery("findFollowingIds")

\* The viewer follows nobody while two posts exist, one of them tagged.
C11_Witness ==
    /\ resp.op = "users"
    /\ findFollowingIds(resp.userId) = {}
    /\ Cardinality(posts) = 2
    /\ postTags # {}
    /\ queries["findFollowingIds"] = 1

(***************************************************************************)
(* C12: for a viewer who follows no tags, getFollowingTagsFeed returns the *)
(* empty list after exactly one query, the lookup of the followed tags: no *)
(* post_tags lookup and no post query is issued.                           *)
(***************************************************************************)
C12_NoTagFollowsOneQuery ==
    (resp.op = "tags" /\ findFollowingTagIds(resp.userId) = {}) =>
        /\ resp.status = 200
        /\ resp.posts = <<>>
        /\ OnlyQuery("findFollowingTagIds")

\* The viewer follows no tag while two posts exist, one of them tagged.
C12_Witness ==
    /\ resp.op = "tags"
    /\ findFollowingTagIds(resp.userId) = {}
    /\ Cardinality(posts) = 2
    /\ postTags # {}
    /\ queries["findFollowingTagIds"] = 1

(***************************************************************************)
(* C13: a viewer who follows no users and no tags gets the empty list from *)
(* getCombinedFeed for every limit and offset, as a normal result and not  *)
(* as an error.                                                            *)
(***************************************************************************)
C13_NoRelationshipsEmptyFeed ==
    (/\ resp.op = "combined"
     /\ findFollowingIds(resp.userId) = {}
     /\ findFollowingTagIds(resp.userId) = {}) =>
        /\ resp.status = 200
        /\ resp.error = "none"
        /\ resp.posts = <<>>

\* Such a viewer asked for the second entry while two posts exist.
C13_Witness ==
    /\ resp.op = "combined"
    /\ findFollowingIds(resp.userId) = {}
    /\ findFollowingTagIds(resp.userId) = {}
    /\ resp.limit = 1
    /\ resp.offset = 1
    /\ Cardinality(posts) = 2
    /\ resp.status = 200

(***************************************************************************)
(* C14: when a relationship lookup, a candidate lookup or an enrichment    *)
(* query fails while getCombinedFeed runs, the request ends in one error,  *)
(* HTTP 500, and no list; a list is returned only by a request in which no *)
(* query failed, and it is the page of both sources' entries.              *)
(***************************************************************************)
C14_FailureIsOneError ==
    resp.op = "combined" =>
        /\ resp.status \in {200, 500}
        /\ resp.error # "none" => (resp.status = 500 /\ resp.posts = <<>>)
        /\ resp.status = 200 =>
              /\ resp.error = "none"
              /\ resp.posts = Paginate(MergeFeeds(resp.usersFeed, resp.tagsFeed),
                                       resp.limit, resp.offset)

\* A query of the tags source failed after the users source had returned
\* entries.
C14_Witness ==
    /\ resp.op = "combined"
    /\ resp.error = "db"
    /\ resp.last.fn = "tags"
    /\ resp.last.pc = "T_enrich"
    /\ resp.usersFeed # <<>>
    /\ resp.status = 500

InOrderOf(list, postIds) ==
    \A i \in DOMAIN list, j \in DOMAIN list :
        i < j => \E a \in DOMAIN postIds, b \in DOMAIN postIds :
                    a < b /\ postIds[a] = list[i].id /\ postIds[b] = list[j].id

(***************************************************************************)
(* C17: when a post whose id the candidate-id query returned is deleted by *)
(* another request before the rows are read, getFollowingUsersFeed reads   *)
(* the rows of the candidates that are left and returns exactly these, in  *)
(* the order of the candidate ids, and raises no error.                    *)
(***************************************************************************)
C17_DeletedPostLeftOut ==
    /\ [][(call.pc = "U_posts" /\ call'.pc = "U_tags") =>
             IdsOf(call'.postsForFeed) = Range(call.postIds) \cap {p.id : p \in posts}]_vars
    /\ [](resp.op = "users" =>
             /\ resp.status = 200
             /\ IdsOf(resp.posts) = IdsOf(resp.last.postsForFeed)
             /\ InOrderOf(resp.posts, resp.last.postIds))

\* Of two candidates the newer one was deleted before its row was read; the
\* older one is returned alone.
C17_Witness ==
    /\ resp.op = "users"
    /\ resp.status = 200
    /\ Len(resp.last.postIds) = 2
    /\ Len(resp.posts) = 1
    /\ resp.posts[1].id = resp.last.postIds[2]
    /\ resp.last.postIds[1] \notin {p.id : p \in posts}

\* The post ids of list, in its order.
IdSeq(list) == [i \in DOMAIN list |-> list[i].id]

(***************************************************************************)
(* C18: getFollowingUsersFeed returns its entries in exactly the order in  *)
(* which the candidate ids were fetched, in whatever order the rows were   *)
(* read and the per-post tasks completed.                                  *)
(***************************************************************************)
C18_CandidateOrderKept ==
    /\ (call.fn = "users" /\ call.pc = "U_finish") =>
          IdSeq(call.feedResults) = IdSeq(call.postsForFeed)
    /\ resp.op = "users" =>
          /\ resp.status = 200
          /\ IdSeq(resp.posts) = resp.last.postIds

\* The rows of two candidates were read in the opposite order and the task
\* of the second row completed first.
C18_Witness ==
    /\ resp.op = "users"
    /\ Len(resp.last.postIds) = 2
    /\ IdSeq(resp.last.postsForFeed) = <<resp.last.postIds[2], resp.last.postIds[1]>>
    /\ resp.last.completion = <<2, 1>>
    /\ IdSeq(resp.posts) = resp.last.postIds

\* The photo rows that the default photo reference of item itemId names.
DefaultPhotos(itemId) ==
    {ph \in photos : \E it \in items : /\ it.id = itemId
                                      /\ it.defaultPhotoId # Null
                                      /\ ph.id = it.defaultPhotoId}

(***************************************************************************)
(* C19: the imageUrl of an entry is the url of the photo that the          *)
(* defaultPhotoId of its item names, when the item has one and the photo   *)
(* row exists, and null otherwise; in neither case is there an error or an *)
(* entry missing.                                                          *)
(***************************************************************************)
C19_ImageUrlOfDefaultPhoto ==
    /\ resp.op \in {"users", "tags", "combined"} =>
          /\ resp.status = 200
          /\ \A i \in DOMAIN resp.posts :
                LET e == resp.posts[i]
                IN  /\ DefaultPhotos(e.itemId) # {} =>
                          \E ph \in DefaultPhotos(e.itemId) : e.imageUrl = ph.url
                    /\ DefaultPhotos(e.itemId) = {} => e.imageUrl = NullUrl
    /\ resp.op \in {"users", "tags"} => Len(resp.posts) = Len(resp.last.postIds)
    /\ resp.op = "users" =>
          Len(resp.posts) = Max(0, Min(resp.limit,
                                       Cardinality(FollowedUsersPosts(resp.userId)) - resp.offset))

\* One entry shows the url of its item's default photo, the other entry's
\* item names a photo row that does not exist.
C19_Witness ==
    /\ resp.op = "users"
    /\ Len(resp.posts) = 2
    /\ resp.posts[1].imageUrl = "a"
    /\ resp.posts[2].imageUrl = NullUrl
    /\ \E it \in items : /\ it.id = resp.posts[2].itemId
                         /\ it.defaultPhotoId # Null
                         /\ findPhotoById(it.defaultPhotoId) = {}

(***************************************************************************)
(* C20: the number of queries a source issues does not grow with the       *)
(* number of posts of its page: every kind of query is issued at most once *)
(* per call of a source, for the whole id set, never once per post.        *)
(***************************************************************************)
C20_QueriesInBulk ==
    resp.op \in {"users", "tags"} => \A kind \in QueryKinds : queries[kind] <= 1

(***************************************************************************)
(* C21: the three feed functions only read: no step of a feed request,     *)
(* whether the request succeeds or fails, changes a row of follows,        *)
(* tag_follows, posts, post_tags, likes, comments or any other table; and  *)
(* nothing a request computed is there when the next one starts, which     *)
(* begins with empty locals.                                               *)
(***************************************************************************)
C21_FeedsReadOnly ==
    /\ [][dbvars' = dbvars]_vars
    /\ [][(req.op = "idle" /\ req'.op # "idle") =>
             /\ usersFeed = <<>>
             /\ call = NoCall
             /\ usersFeed' = <<>>
             /\ queries' = NoQueries
             /\ call' = NewCall(call'.fn, call'.limit, call'.offset)]_vars
    /\ [](req.op = "idle" => (call = NoCall /\ usersFeed = <<>>))

\* A combined request failed in the tags source after the users source had
\* returned entries; the tables hold posts, tags and follows.
C21_Witness ==
    /\ resp.op = "combined"
    /\ resp.status = 500
    /\ resp.usersFeed # <<>>
    /\ req.op = "idle"
    /\ usersFeed = <<>>
    /\ Cardinality(posts) = 2
    /\ postTags # {}

C23_WitnessDeleted ==
    \E c \in Calls :
        /\ ops[c].op = "deleteComment"
        /\ ops[c].status = 200
        /\ findCommentById(ops[c].a) = {}
        /\ ops[c].found # {}

(***************************************************************************)
(* C24: a stored items row that fails the schema is filtered out of a list *)
(* read and is fatal for a single read.  getUserItems returns the valid    *)
(* rows of the user, in the order the repository delivered them, and does  *)
(* not fail; getItemById fails with 500 for an invalid row, with 404 for a *)
(* missing row, and returns a valid row.                                   *)
(***************************************************************************)
C24_InvalidItemFilteredOrFatal ==
    \A c \in Calls :
        /\ (ops[c].op = "getUserItems" /\ ops[c].pc = "done") =>
              /\ ops[c].status = 200
              /\ ops[c].list = SelectSeq(ops[c].found, ValidItem)
              /\ Range(ops[c].found) = {it \in items : it.userId = ops[c].a}
              /\ Range(ops[c].list) = {it \in items : it.userId = ops[c].a /\ ValidItem(it)}
        /\ (ops[c].op = "getItemById" /\ ops[c].pc = "done") =>
              LET stored == {it \in items : it.id = ops[c].a}
              IN  /\ stored = {} => ops[c].status = 404
                  /\ (stored # {} /\ \E it \in stored : ~ValidItem(it)) => ops[c].status = 500
                  /\ (stored # {} /\ \A it \in stored : ValidItem(it)) =>
                        (ops[c].status = 200 /\ Range(ops[c].list) = stored)

\* The invalid row came between two valid rows of the list read, which
\* returned these two in order; the single read of the invalid row failed.
C24_Witness ==
    /\ ops[1].op = "getUserItems"
    /\ ops[1].pc = "done"
    /\ Len(ops[1].found) = 3
    /\ ~ValidItem(ops[1].found[2])
    /\ ops[1].list = <<ops[1].found[1], ops[1].found[3]>>
    /\ ops[2].op = "getItemById"
    /\ ops[2].status = 500
    /\ ops[2].a = ops[1].found[2].id

(***************************************************************************)
(* C25: for a page inside the merge window (offset + limit at most 100)    *)
(* and posts with distinct creation times, getCombinedFeed returns exactly *)
(* positions [offset, offset + limit) of the full feed: all the posts of   *)
(* followed users or with a followed tag, each once, newest first, however *)
(* many posts match.                                                       *)
(***************************************************************************)
C25_PageOfTrueFeed ==
    (/\ resp.op = "combined"
     /\ resp.offset + resp.limit <= MergeWindow
     /\ \A p \in posts, q \in posts : p.createdAt = q.createdAt => p = q) =>
        IsPageOf(resp.posts,
                 FollowedUsersPosts(resp.userId) \cup FollowedTagsPosts(resp.userId),
                 resp.limit, resp.offset)

(***************************************************************************)
(* C26: when other requests insert or delete posts, follows, tag follows   *)
(* or post_tags rows between the reads of one getCombinedFeed call, the    *)
(* page it returns still has no two entries with the same post id, is      *)
(* ordered by createdAt descending and has at most limit entries.          *)
(***************************************************************************)
C26_PageSoundUnderWrites ==
    (resp.op = "combined" /\ resp.status = 200) =>
        /\ NoDuplicateIds(resp.posts)
        /\ NewestFirst(resp.posts)
        /\ Len(resp.posts) <= resp.limit

\* A post of the followed user was created and tagged between the read of
\* the users source and the read of the tags source: it is on the page from
\* the tags source alone, next to the post both sources returned.
C26_Witness ==
    /\ resp.op = "combined"
    /\ resp.status = 200
    /\ ops[1].op = "createPost"
    /\ ops[2].op = "addTagToPost"
    /\ Len(resp.usersFeed) = 1
    /\ Len(resp.tagsFeed) = 2
    /\ Len(resp.posts) = 2
    /\ \E i \in DOMAIN resp.posts :
          /\ resp.posts[i].authorId = 2
          /\ resp.posts[i].id = ops[2].a
          /\ \A u \in DOMAIN resp.usersFeed : resp.usersFeed[u].id # resp.posts[i].id

\* The number a query parameter as sent stands for is an integer from min
\* to max; an absent parameter stands for its default.
RawInBounds(raw, min, max) ==
    \/ raw = Absent
    \/ /\ ~CoerceNumber(RawQuery[raw]).nan
       /\ \E n \in min..max : CoerceNumber(RawQuery[raw]).twice = 2 * n

(***************************************************************************)
(* C27: the feed routes call their service only with an integer limit from *)
(* 1 to 100, 20 when the parameter is omitted, and an integer offset of at *)
(* least 0, 0 when omitted; a request with a limit or offset outside these *)
(* bounds is answered 400 and the service is not called.                   *)
(***************************************************************************)
C27_RoutesValidateQuery ==
    /\ [](req.op # "idle" =>
            /\ req.limit \in 1..100
            /\ req.offset \in Nat
            /\ hist[1].limit = Absent => req.limit = 20
            /\ hist[1].offset = Absent => req.offset = 0
            /\ RawInBounds(hist[1].limit, 1, 100)
            /\ RawInBounds(hist[1].offset, 0, 101))
    /\ [][hist' # hist =>
            IF RawInBounds(hist'[1].limit, 1, 100) /\ RawInBounds(hist'[1].offset, 0, 101)
            THEN req'.op # "idle"
            ELSE /\ resp'.status = 400
                 /\ UNCHANGED <<req, call, usersFeed, dbvars>>
                 /\ queries' = NoQueries]_vars

\* One request with limit 101 was answered 400 without a query; a request
\* without parameters runs in the service with limit 20 and offset 0.
C27_Witness ==
    /\ req.op = "combined"
    /\ hist = <<[limit |-> Absent, offset |-> Absent]>>
    /\ req.limit = 20
    /\ call.fn = "tags"

C27_WitnessRejected ==
    /\ req.op = "idle"
    /\ resp.status = 400
    /\ hist # <<>>
    /\ RawQuery[hist[1].limit] = "101"

\* The call c of likePost or unlikePost has returned.
Returned(c, op) == ops[c].op = op /\ ops[c].pc = "done"

C28_WitnessRace ==
    /\ Returned(1, "likePost")
    /\ Returned(2, "likePost")
    /\ ops[1].a = ops[2].a
    /\ ops[1].inserted
    /\ ops[2].status = 500
    /\ likes[<<ops[1].a, 1>>] = 1

\* unlikePost succeeded without a like to delete.
C28_WitnessUnlike ==
    /\ Returned(1, "unlikePost")
    /\ ops[1].status = 200
    /\ ~ops[1].deleted

(***************************************************************************)
(* C29: likePost awaits createLikeNotification exactly when it inserted a  *)
(* new like and the liker is not the author of the post, never for a like  *)
(* that was there or for one's own post, and the notification made is a    *)
(* like notification for the author.  When making the notification fails,  *)
(* the likes stay as they are and likePost returns success with the count  *)
(* of the likes.                                                           *)
(***************************************************************************)
C29_NotificationForNewLike ==
    /\ [](\A c \in Calls :
            (ops[c].op = "likePost" /\ ops[c].pc \in {"LP_count", "done"}) =>
                /\ ops[c].notified <=>
                      (ops[c].inserted /\ AuthorOf(ops[c].found) # ops[c].a)
                /\ ops[c].list # <<>> =>
                      /\ ops[c].notified
                      /\ ops[c].list = <<[userId |-> AuthorOf(ops[c].found), type |-> "like",
                                          actorId |-> ops[c].a, subjectId |-> ops[c].b]>>
                /\ (ops[c].pc = "done" /\ ops[c].inserted) => ops[c].status = 200)
    /\ [][/\ \A c \in Calls :
               /\ (ops[c].pc = "LP_notify" /\ ops'[c] # ops[c]) =>
                     /\ likes' = likes
                     /\ notifications' = notifications \o ops'[c].list
                     /\ ops'[c].pc = "LP_count"
               /\ (ops[c].pc = "LP_count" /\ ops'[c] # ops[c]) =>
                     /\ ops'[c].pc = "done"
                     /\ ops'[c].status = 200
                     /\ ops'[c].count = likesCountOf(ops[c].b)
                     /\ dbvars' = dbvars
          /\ notifications' # notifications =>
                \E c \in Calls : ops[c].pc = "LP_notify" /\ ops'[c] # ops[c]]_vars

\* Making the notification failed: the like is recorded, no notification
\* is, and likePost returned success with the count 1.
C29_Witness ==
    /\ Returned(1, "likePost")
    /\ ops[1].inserted
    /\ ops[1].notified
    /\ ops[1].list = <<>>
    /\ notifications = <<>>
    /\ ops[1].status = 200
    /\ ops[1].count = 1
    /\ findLike(ops[1].a, ops[1].b)

\* A like of another user's post with its notification, and a like of one's
\* own post without.
C29_WitnessNotified ==
    /\ Returned(1, "likePost")
    /\ ops[1].list # <<>>
    /\ Len(notifications) = 1
    /\ Returned(2, "likePost")
    /\ ops[2].inserted
    /\ ~ops[2].notified
    /\ ops[2].a = 2

C30_WitnessNotFound ==
    /\ Returned(1, "followUser")
    /\ ops[1].b = 4
    /\ ops[1].status = 404
    /\ follows # EmptyBag

====
